---- MODULE Spec2Model ----
(***************************************************************************)
(* black-client: the concurrent dispatch pipeline of src/main.go           *)
(* (second revision of the file, lines 249-578).                           *)
(*                                                                         *)
(*   walkDirectories --pathQueue--> workers --actQueue--> report           *)
(*                                                                         *)
(* Strings that the program only moves around (file contents, diffs, error *)
(* messages) are sequences of tokens; a token stands for a run of bytes,   *)
(* "\n" for a newline.  The summary line of report is built as a real      *)
(* string.                                                                 *)
(***************************************************************************)
EXTENDS Integers, Sequences, FiniteSets, TLC

(***************************************************************************)
(* Bounds of the model.                                                    *)
(***************************************************************************)
\* largest number of --port values, i.e. of workers
MaxPorts == 2
\* largest number of paths walkDirectories puts on the path queue
MaxPaths == 2
\* number of distinct candidate files under the roots
MaxFiles == 2
\* capacity, in tokens, of the bufio.Writer of overwritePath
BufSize == 2
\* longest sequence of actions handed to report on its own (ReportSpec)
MaxActions == 3
\* longest body, in tokens, of an answer handed to processPath on its own
\* (ProcessSpec)
MaxBody == 5

(***************************************************************************)
(* Program constants.                                                      *)
(***************************************************************************)
\* make(chan Action, 99)
ActQueueCap == 99
\* exit code set by an Error action
ExitError == 123
\* exit code set by a WouldBeReformatted action
ExitWouldReformat == 1
\* log.Fatalf ends with os.Exit(1)
ExitFatal == 1
\* an unrecovered panic ends the process with status 2
ExitPanic == 2
\* exitStatus while the process is still running
Running == -1

Files == 1..MaxFiles

\* type Action
Unchanged == "Unchanged"
Reformatted == "Reformatted"
WouldBeReformatted == "WouldBeReformatted"
Error == "Error"
Action == {Unchanged, Reformatted, WouldBeReformatted, Error}
NoAction == "none"

(***************************************************************************)
(* What the daemon and the operating system can answer.                    *)
(***************************************************************************)
\* statuses newBlackResult has a case for, and two it has none for
KnownStatus == {200, 204, 400, 500}
OtherStatus == {302, 503}
Status == KnownStatus \cup OtherStatus

\* name of file f, as the token that replaces a placeholder
PathName(f) == IF f = 1 THEN "a.py" ELSE IF f = 2 THEN "b.py" ELSE "c.py"

\* content of every file before the run
Original == <<"orig">>

\* bodies of a 200 answer: a well-formed diff, a diff with one header line,
\* a diff whose header lines carry no placeholder, and reformatted content
DiffGood == <<"In", "\n", "Out", "\n", "x">>
DiffOneHeader == <<"In", "\n">>
DiffNoPlaceholder == <<"x", "\n", "y", "\n", "z">>
NewContent == <<"x", "y", "z">>
\* the daemon answers a request that carries X-Diff with a diff (which may
\* break the header convention), any other request with the new content
Bodies200(wantDiff) ==
    IF wantDiff THEN {DiffGood, DiffOneHeader, DiffNoPlaceholder}
    ELSE {NewContent}
\* body of a 400 or 500 answer: the error message
ErrorMessage == <<"m">>

BodiesOf(st, wantDiff) ==
    IF st = 200 THEN Bodies200(wantDiff)
    ELSE IF st \in {400, 500} THEN {ErrorMessage}
    ELSE {<< >>}

\* the result of queryBlackd: err is "none" (a response), "open" (os.Open
\* failed) or "transport" (client.Do failed, timeout included); bodyErr
\* tells that reading the error message from resp.Body fails
Response(st, b, be) == [err |-> "none", status |-> st, body |-> b, bodyErr |-> be]
Failure(e) == [err |-> e, status |-> 0, body |-> << >>, bodyErr |-> FALSE]

\* a path on the queue is [id |-> i, file |-> f]: the i-th send of
\* walkDirectories, of the path string that names file f

VARIABLES
    check, diff, nports,     \* the flags --check, --diff; len(*ports)
    known,                   \* number of distinct files the traversal has met
    pathQueue, pathClosed,   \* chan string, and whether it is closed
    held,                    \* the paths the workers are in processPath for
    wgCount,                 \* sync.WaitGroup counter: workers still in their loop
    actQueue, actClosed,     \* chan Action, and whether it is closed
    exitCode, unchangedCount, reformattedCount, errorCount,  \* locals of report
    rpc, summary,            \* position of report; what it printed
    exitStatus,              \* status the process exited with, or Running
    disk,                    \* content of each file
    sent,                    \* sent[i]: number of sends on actQueue for path i
    calls,                   \* what the calls of processPath did so far: see Call
    overwritten,             \* the files overwritePath was called for
    consumed,                \* consumed[a]: how many actions a report received
    callArg, callRes         \* ProcessSpec: the input of one call of processPath
                             \* and what the call did

vars == <<check, diff, nports, known, pathQueue, pathClosed,
          held, wgCount, actQueue, actClosed,
          exitCode, unchangedCount, reformattedCount, errorCount, rpc, summary,
          exitStatus, disk, sent, calls, overwritten, consumed, callArg, callRes>>

confVars == <<check, diff, nports>>
walkVars == <<known, pathQueue, pathClosed>>
reportVars == <<exitCode, unchangedCount, reformattedCount, errorCount, rpc,
                summary, consumed>>
histVars == <<sent, calls, overwritten>>
callVars == <<callArg, callRes>>

InitDisk == [f \in Files |-> Original]

\* callArg and callRes where processPath is not called on its own
NoArg == [r |-> Failure("idle"), file |-> 0, stdoutOk |-> TRUE,
          createOk |-> TRUE, copyOk |-> TRUE, syncOk |-> TRUE,
          readerFrom |-> TRUE]
NoCall == [kind |-> "none", act |-> NoAction, content |-> << >>,
           out |-> << >>, wrote |-> FALSE]

Init ==
    /\ check \in BOOLEAN
    /\ diff \in BOOLEAN
    /\ nports \in 1..MaxPorts
    /\ known = 0
    /\ pathQueue = << >>
    /\ pathClosed = FALSE
    /\ held = {}
    /\ wgCount = nports
    /\ actQueue = << >>
    /\ actClosed = FALSE
    /\ exitCode = 0
    /\ unchangedCount = 0
    /\ reformattedCount = 0
    /\ errorCount = 0
    /\ rpc = "loop"
    /\ summary = "none"
    /\ exitStatus = Running
    /\ disk = InitDisk
    /\ sent = << >>
    /\ calls = {}
    /\ overwritten = {}
    /\ consumed = [a \in Action |-> 0]
    /\ callArg = NoArg
    /\ callRes = NoCall

(***************************************************************************)
(* printDiff and printDiffHeader.                                          *)
(***************************************************************************)
\* index of the first newline of buf, 0 when there is none
IndexNewline(buf) ==
    IF \E k \in 1..Len(buf) : buf[k] = "\n"
    THEN CHOOSE k \in 1..Len(buf) :
            /\ buf[k] = "\n"
            /\ \A j \in 1..(k - 1) : buf[j] # "\n"
    ELSE 0

\* every occurrence is replaced
ReplaceFirst_All(s, old, new) ==
    [j \in 1..Len(s) |-> IF s[j] = old THEN new ELSE s[j]]

\* strings.Replace(s, old, new, 1): the first occurrence only
ReplaceFirst(s, old, new) ==
    IF \E k \in 1..Len(s) : s[k] = old
    THEN LET k == CHOOSE k \in 1..Len(s) :
                     /\ s[k] = old
                     /\ \A j \in 1..(k - 1) : s[j] # old
         IN [j \in 1..Len(s) |-> IF j = k THEN new ELSE s[j]]
    ELSE s

\* buf.ReadString('\n') fails when the input ends before a newline;
\* otherwise the header, with oldPath replaced once, is written
printDiffHeader(path, oldPath, buf) ==
    LET k == IndexNewline(buf) IN
    IF k = 0
    THEN [ok |-> FALSE, out |-> << >>, rest |-> << >>]
    ELSE [ok |-> TRUE,
          out |-> ReplaceFirst(SubSeq(buf, 1, k), oldPath, path),
          rest |-> SubSeq(buf, k + 1, Len(buf))]

\* ok, and what went to stdout; the second header is not attempted when the
\* first failed; a failing io.Copy to stdout writes nothing of the body
printDiff(path, text, stdoutOk) ==
    LET h1 == printDiffHeader(path, "In", text)
        h2 == printDiffHeader(path, "Out", h1.rest)
    IN IF ~h1.ok THEN [ok |-> FALSE, out |-> << >>]
       ELSE IF ~h2.ok THEN [ok |-> FALSE, out |-> h1.out]
       ELSE IF ~stdoutOk THEN [ok |-> FALSE, out |-> h1.out \o h2.out]
       ELSE [ok |-> TRUE, out |-> h1.out \o h2.out \o h2.rest]

(***************************************************************************)
(* newBlackResult.                                                         *)
(***************************************************************************)
\* newStringFromReader panics when the read fails
newStringFromReader(r) ==
    IF r.bodyErr THEN [panic |-> TRUE, str |-> << >>]
    ELSE [panic |-> FALSE, str |-> r.body]

BlackError(r, isSyntax) ==
    LET m == newStringFromReader(r) IN
    IF m.panic
    THEN [kind |-> "panic", changed |-> FALSE, text |-> << >>,
          syntax |-> isSyntax, msg |-> << >>]
    ELSE [kind |-> "error", changed |-> FALSE, text |-> << >>,
          syntax |-> isSyntax, msg |-> m.str]

\* 204 is taken for a change
newBlackResult_204Changed(r) ==
    CASE r.status \in {200, 204} ->
           [kind |-> "result", changed |-> TRUE, text |-> r.body,
            syntax |-> FALSE, msg |-> << >>]
      [] r.status = 400 -> BlackError(r, TRUE)
      [] r.status = 500 -> BlackError(r, FALSE)
      [] OTHER ->
           [kind |-> "fatal", changed |-> FALSE, text |-> << >>,
            syntax |-> FALSE, msg |-> << >>]

\* a status without a case is reported as an error of the path
newBlackResult_NoFatal(r) ==
    CASE r.status = 204 ->
           [kind |-> "result", changed |-> FALSE, text |-> << >>,
            syntax |-> FALSE, msg |-> << >>]
      [] r.status = 200 ->
           [kind |-> "result", changed |-> TRUE, text |-> r.body,
            syntax |-> FALSE, msg |-> << >>]
      [] r.status = 400 -> BlackError(r, TRUE)
      [] OTHER -> BlackError(r, FALSE)

newBlackResult(r) ==
    CASE r.status = 204 ->
           [kind |-> "result", changed |-> FALSE, text |-> << >>,
            syntax |-> FALSE, msg |-> << >>]
      [] r.status = 200 ->
           [kind |-> "result", changed |-> TRUE, text |-> r.body,
            syntax |-> FALSE, msg |-> << >>]
      [] r.status = 400 -> BlackError(r, TRUE)
      [] r.status = 500 -> BlackError(r, FALSE)
      [] OTHER ->
           [kind |-> "fatal", changed |-> FALSE, text |-> << >>,
            syntax |-> FALSE, msg |-> << >>]

(***************************************************************************)
(* overwritePath.                                                          *)
(***************************************************************************)
\* what io.Copy(bufio.NewWriter(file), r) has handed to the file when it
\* returns nil: everything when the file is an io.ReaderFrom (the writer
\* delegates to it), else the full buffers only, since the writer is never
\* flushed
Flushed(new, rf) ==
    IF rf THEN new ELSE SubSeq(new, 1, Len(new) - (Len(new) % BufSize))

\* old: the file's content; new: what is left to read of newContents;
\* copyOk: io.Copy returns nil (no read of the body and no write failed);
\* failed |-> the error returned is not nil; content |-> the file afterwards
overwritePath(old, new, rf, createOk, copyOk, syncOk) ==
    IF ~createOk THEN [failed |-> TRUE, content |-> old]
    ELSE IF ~copyOk THEN [failed |-> TRUE, content |-> << >>]
    ELSE [failed |-> ~syncOk, content |-> Flushed(new, rf)]

(***************************************************************************)
(* processPath, from the return of queryBlackd on.                         *)
(***************************************************************************)
Returns(a, content, out, called) ==
    [kind |-> "return", act |-> a, content |-> content, out |-> out,
     wrote |-> called]

\* conf.Check is not tested before the file is overwritten
Classify_NoCheck(res, path, old, confCheck, confDiff, rf, io) ==
    LET pd == printDiff(path, res.text, io.stdoutOk)
        left == IF confDiff THEN << >> ELSE res.text
        out == IF confDiff THEN pd.out ELSE << >>
        ow == overwritePath(old, left, rf, io.createOk, io.copyOk,
                            io.syncOk)
    IN IF ~res.changed THEN Returns(Unchanged, old, << >>, FALSE)
       ELSE IF confDiff /\ ~pd.ok THEN Returns(Error, old, out, FALSE)
       ELSE IF ow.failed THEN Returns(Error, ow.content, out, TRUE)
       ELSE IF confCheck THEN Returns(WouldBeReformatted, ow.content, out, TRUE)
       ELSE Returns(Reformatted, ow.content, out, TRUE)

\* res.Changed is tested after the file is overwritten
Classify_LateUnchanged(res, path, old, confCheck, confDiff, rf, io) ==
    LET pd == printDiff(path, res.text, io.stdoutOk)
        left == IF confDiff THEN << >> ELSE res.text
        out == IF confDiff /\ res.changed THEN pd.out ELSE << >>
        ow == overwritePath(old, left, rf, io.createOk, io.copyOk,
                            io.syncOk)
    IN IF res.changed /\ confDiff /\ ~pd.ok THEN Returns(Error, old, out, FALSE)
       ELSE IF res.changed /\ confCheck
       THEN Returns(WouldBeReformatted, old, out, FALSE)
       ELSE IF confCheck THEN Returns(Unchanged, old, out, FALSE)
       ELSE IF ow.failed THEN Returns(Error, ow.content, out, TRUE)
       ELSE IF ~res.changed THEN Returns(Unchanged, ow.content, out, TRUE)
       ELSE Returns(Reformatted, ow.content, out, TRUE)

\* the part of processPath after newBlackResult returned a result
Classify(res, path, old, confCheck, confDiff, rf, io) ==
    LET pd == printDiff(path, res.text, io.stdoutOk)
        \* printDiff drained the body: nothing is left for overwritePath
        left == IF confDiff THEN << >> ELSE res.text
        out == IF confDiff THEN pd.out ELSE << >>
        ow == overwritePath(old, left, rf, io.createOk, io.copyOk,
                            io.syncOk)
    IN IF ~res.changed THEN Returns(Unchanged, old, << >>, FALSE)
       ELSE IF confDiff /\ ~pd.ok THEN Returns(Error, old, out, FALSE)
       ELSE IF confCheck THEN Returns(WouldBeReformatted, old, out, FALSE)
       ELSE IF ow.failed THEN Returns(Error, ow.content, out, TRUE)
       ELSE Returns(Reformatted, ow.content, out, TRUE)

\* kind |-> "return": processPath returns act; "fatal": log.Fatalf;
\* "panic": newStringFromReader panicked
processPath(r, path, old, confCheck, confDiff, rf, io) ==
    LET nb == newBlackResult(r) IN
    IF r.err # "none" THEN Returns(Error, old, << >>, FALSE)
    ELSE IF nb.kind \in {"fatal", "panic"}
    THEN [kind |-> nb.kind, act |-> NoAction, content |-> old,
          out |-> << >>, wrote |-> FALSE]
    ELSE IF nb.kind = "error" THEN Returns(Error, old, << >>, FALSE)
    ELSE Classify(nb, path, old, confCheck, confDiff, rf, io)

\* outcomes of the calls processPath makes to the operating system, and
\* whether the *os.File of the build implements io.ReaderFrom (it does from
\* Go 1.15 on)
IOResults == [stdoutOk : BOOLEAN, createOk : BOOLEAN, copyOk : BOOLEAN,
              syncOk : BOOLEAN, readerFrom : BOOLEAN]

\* the outcomes that can differ for the answer r: a call that processPath
\* does not reach has no outcome; after a failed call the later ones are
\* not made
IOResultsFor(r, confCheck, confDiff) ==
    {io \in IOResults :
        /\ (r.err # "none" \/ r.status # 200 \/ ~confDiff) => io.stdoutOk
        /\ (r.err # "none" \/ r.status # 200 \/ confCheck) =>
              io.createOk /\ io.copyOk /\ io.syncOk /\ io.readerFrom
        /\ ~io.createOk => io.copyOk /\ io.syncOk /\ io.readerFrom
        /\ ~io.copyOk => io.syncOk /\ io.readerFrom}

(***************************************************************************)
(* report and reportCount.                                                 *)
(***************************************************************************)
Digit == <<"0", "1", "2", "3", "4", "5", "6", "7", "8", "9">>

\* strconv.Itoa for n >= 0
RECURSIVE Itoa(_)
Itoa(n) == IF n < 10 THEN Digit[n + 1] ELSE Itoa(n \div 10) \o Digit[(n % 10) + 1]

\* the plural is used from one file on
reportCount_Plural(buf, confCheck, count, statusWithCheck, statusWithoutCheck) ==
    (IF buf # "" THEN buf \o ", " ELSE buf)
      \o Itoa(count) \o " file"
      \o (IF count > 0 THEN "s " ELSE " ")
      \o (IF confCheck THEN statusWithCheck ELSE statusWithoutCheck)

reportCount(buf, confCheck, count, statusWithCheck, statusWithoutCheck) ==
    (IF buf # "" THEN buf \o ", " ELSE buf)
      \o Itoa(count) \o " file"
      \o (IF count > 1 THEN "s " ELSE " ")
      \o (IF confCheck THEN statusWithCheck ELSE statusWithoutCheck)

\* the line report logs: lines 381-392
SummaryLine(confCheck, reformatted, unchanged, failed) ==
    LET b1 == IF reformatted > 0
              THEN reportCount("", confCheck, reformatted,
                               "would be reformatted", "reformatted")
              ELSE ""
        b2 == IF unchanged > 0
              THEN reportCount(b1, confCheck, unchanged,
                               "would be left unchanged", "left unchanged")
              ELSE b1
        b3 == IF failed > 0
              THEN reportCount(b2, confCheck, failed,
                               "would fail to reformat", "failed to reformat")
              ELSE b2
    IN b3 \o "."

\* what fmt.Println prints when no action was received (the emoji that ends
\* the line is left out)
NothingToDo == "No Python files are present to be formatted. Nothing to do"

\* WouldBeReformatted sets the code without looking at it
NextExitCode_Overwrite(code, act) ==
    CASE act = WouldBeReformatted -> ExitWouldReformat
      [] act = Error -> ExitError
      [] OTHER -> code

\* the switch of the loop of report, on exitCode
NextExitCode(code, act) ==
    CASE act = WouldBeReformatted -> IF code < 1 THEN ExitWouldReformat ELSE code
      [] act = Error -> ExitError
      [] OTHER -> code

\* the test is inverted
NoneCounted_Inverted(unchanged, reformatted, failed) ==
    unchanged > 0 \/ reformatted > 0 \/ failed > 0

\* the test of line 376
NoneCounted(unchanged, reformatted, failed) ==
    unchanged = 0 /\ reformatted = 0 /\ failed = 0

(***************************************************************************)
(* Channels.                                                               *)
(***************************************************************************)
\* the loop ends as soon as the queue is closed, whatever is left in it
RangeEnds_Closed(queue, closed) == closed

\* the loop ends when the queue is empty, closed or not
RangeEnds_Drained(queue, closed) == queue = << >>

\* for x := range queue ends: the queue is closed and nothing is left in it
RangeEnds(queue, closed) == queue = << >> /\ closed

(***************************************************************************)
(* walkDirectories.                                                        *)
(***************************************************************************)
\* files are numbered in the order the traversal first meets them
NextFiles == {f \in Files : f <= known + 1}

\* the callback sends a candidate path; it blocks while the queue, of
\* capacity len(*ports), is full.  Roots may overlap or repeat, so a file
\* may be sent more than once.
WalkSend(f) ==
    /\ exitStatus = Running
    /\ ~pathClosed
    /\ Len(sent) < MaxPaths
    /\ Len(pathQueue) < nports
    /\ f \in NextFiles
    /\ known' = IF f > known THEN f ELSE known
    /\ pathQueue' = Append(pathQueue, [id |-> Len(sent) + 1, file |-> f])
    /\ sent' = Append(sent, 0)
    /\ UNCHANGED <<confVars, callVars, pathClosed, held, wgCount, actQueue,
                   actClosed, reportVars, exitStatus, disk, calls,
                   overwritten>>

\* godirwalk.Walk returns an error for a root: log.Fatalf
WalkFatal ==
    /\ exitStatus = Running
    /\ ~pathClosed
    /\ exitStatus' = ExitFatal
    /\ UNCHANGED <<confVars, callVars, walkVars, held, wgCount, actQueue, actClosed,
                   reportVars, disk, histVars>>

\* close(pathQueue) after the last root
WalkClose ==
    /\ exitStatus = Running
    /\ ~pathClosed
    /\ pathClosed' = TRUE
    /\ UNCHANGED <<confVars, callVars, known, pathQueue, held, wgCount, actQueue,
                   actClosed, reportVars, exitStatus, disk, histVars>>

(***************************************************************************)
(* The worker goroutines of main.  They run the same code on the same      *)
(* queues, so the state keeps how many are at the head of their loop and   *)
(* which paths the others hold, not which worker holds which.              *)
(***************************************************************************)
\* workers waiting on pathQueue: those still in their loop that hold no path
Idle == wgCount - Cardinality(held)

\* for path := range pathQueue: a worker receives a path; processPath is
\* entered and the request is sent
WorkerTake ==
    /\ exitStatus = Running
    /\ Idle > 0
    /\ pathQueue # << >>
    /\ held' = held \cup {Head(pathQueue)}
    /\ pathQueue' = Tail(pathQueue)
    /\ UNCHANGED <<confVars, callVars, known, pathClosed, wgCount, actQueue,
                   actClosed, reportVars, exitStatus, disk, histVars>>

\* the range loop of a worker ends: the queue is closed and drained; wg.Done()
WorkerExit ==
    /\ exitStatus = Running
    /\ Idle > 0
    /\ RangeEnds(pathQueue, pathClosed)
    /\ wgCount' = wgCount - 1
    /\ UNCHANGED <<confVars, callVars, walkVars, held, actQueue, actClosed,
                   reportVars, exitStatus, disk, histVars>>

\* everything queryBlackd can return: os.Open fails, client.Do fails, or the
\* daemon answers; reading the error message of an answer may fail
queryBlackd(confDiff) ==
    {Failure("open"), Failure("transport")}
      \cup UNION {{Response(st, b, FALSE) : b \in BodiesOf(st, confDiff)} :
                    st \in Status}
      \cup UNION {{Response(st, b, TRUE) : b \in BodiesOf(st, confDiff)} :
                    st \in {400, 500}}

\* the kinds of result of queryBlackd: the file could
\* not be opened; the request failed or the daemon reported an error; no
\* change; changed; a status newBlackResult has no case for
KindOf(r) ==
    IF r.err = "open" THEN "open"
    ELSE IF r.err = "transport" \/ r.status \in {400, 500} THEN "failed"
    ELSE IF r.status = 204 THEN "nochange"
    ELSE IF r.status = 200 THEN "changed"
    ELSE "unsupported"

\* what the run remembers of a call of processPath: the kind of result of
\* queryBlackd, how the call ended ("return", "fatal", "panic"), the Action
\* returned, whether overwritePath was called, and whether the file has the
\* content it had before the call
Call(r, pp, old) ==
    [kind |-> KindOf(r), end |-> pp.kind, act |-> pp.act, wrote |-> pp.wrote,
     same |-> (pp.content = old)]

\* actQueue <- processPath(conf, path) by the worker that holds p: the answer
\* to the request arrives and is classified, and the action is sent.  The
\* send needs room in the queue and panics on a closed queue.
WorkerProcess(p) ==
    /\ exitStatus = Running
    /\ p \in held
    /\ Len(actQueue) < ActQueueCap
    /\ \E r \in queryBlackd(diff) : \E io \in IOResultsFor(r, check, diff) :
          LET f == p.file
              pp == processPath(r, PathName(f), disk[f], check, diff,
                                io.readerFrom, io)
          IN /\ calls' = calls \cup {Call(r, pp, disk[f])}
             /\ disk' = [disk EXCEPT ![f] = pp.content]
             /\ overwritten' = IF pp.wrote THEN overwritten \cup {f}
                               ELSE overwritten
             /\ IF pp.kind = "return" /\ ~actClosed
                THEN /\ actQueue' = Append(actQueue, pp.act)
                     /\ sent' = [sent EXCEPT ![p.id] = @ + 1]
                     /\ held' = held \ {p}
                     /\ UNCHANGED exitStatus
                ELSE /\ exitStatus' = IF pp.kind = "fatal" THEN ExitFatal
                                      ELSE ExitPanic
                     /\ UNCHANGED <<actQueue, sent, held>>
    /\ UNCHANGED <<confVars, callVars, walkVars, wgCount, actClosed, reportVars>>

(***************************************************************************)
(* The closer goroutine of main.                                           *)
(***************************************************************************)
\* the closer does not wait for the workers
WaitReturns_NoWait(counter) == TRUE

\* the closer waits for the first worker only
WaitReturns_FirstDone(counter) == counter < nports

\* the counter was raised once too often: the workers never bring it to zero
WaitReturns_BelowZero(counter) == counter < 0

\* wg.Wait() returns
WaitReturns(counter) == counter = 0

CloseActQueue ==
    /\ exitStatus = Running
    /\ ~actClosed
    /\ WaitReturns(wgCount)
    /\ actClosed' = TRUE
    /\ UNCHANGED <<confVars, callVars, walkVars, held, wgCount, actQueue, reportVars,
                   exitStatus, disk, histVars>>

(***************************************************************************)
(* report, and the os.Exit of main.                                        *)
(***************************************************************************)
\* one iteration of for act := range actQueue
ReportReceive ==
    /\ exitStatus = Running
    /\ rpc = "loop"
    /\ actQueue # << >>
    /\ LET act == Head(actQueue) IN
          /\ actQueue' = Tail(actQueue)
          /\ consumed' = [consumed EXCEPT ![act] = @ + 1]
          /\ unchangedCount' = IF act = Unchanged THEN unchangedCount + 1
                               ELSE unchangedCount
          /\ reformattedCount' = IF act \in {Reformatted, WouldBeReformatted}
                                 THEN reformattedCount + 1 ELSE reformattedCount
          /\ errorCount' = IF act = Error THEN errorCount + 1 ELSE errorCount
          /\ exitCode' = NextExitCode(exitCode, act)
    /\ UNCHANGED <<confVars, callVars, walkVars, held, wgCount, actClosed, rpc,
                   summary, exitStatus, disk, histVars>>

\* the loop ends on the closed, drained queue; the message or the summary is
\* printed, report returns and main exits with its result
ReportReturn ==
    /\ exitStatus = Running
    /\ rpc = "loop"
    /\ RangeEnds(actQueue, actClosed)
    /\ summary' = IF NoneCounted(unchangedCount, reformattedCount, errorCount)
                  THEN NothingToDo
                  ELSE SummaryLine(check, reformattedCount, unchangedCount,
                                   errorCount)
    /\ rpc' = "returned"
    /\ exitStatus' = exitCode
    /\ UNCHANGED <<confVars, callVars, walkVars, held, wgCount, actQueue, actClosed,
                   exitCode, unchangedCount, reformattedCount, errorCount,
                   consumed, disk, histVars>>

Next ==
    \/ \E f \in Files : WalkSend(f)
    \/ WalkFatal
    \/ WalkClose
    \/ WorkerTake
    \/ WorkerExit
    \/ \E p \in held : WorkerProcess(p)
    \/ CloseActQueue
    \/ ReportReceive
    \/ ReportReturn

Spec == Init /\ [][Next]_vars

\* every step but the fatal traversal error
Progress ==
    \/ \E f \in Files : WalkSend(f)
    \/ WalkClose
    \/ WorkerTake
    \/ WorkerExit
    \/ \E p \in held : WorkerProcess(p)
    \/ CloseActQueue
    \/ ReportReceive
    \/ ReportReturn

\* the Go scheduler runs a goroutine that can take a step, and every request
\* returns; a fatal traversal error is not bound to happen
Fairness == WF_vars(Progress)

FairSpec == Init /\ [][Next]_vars /\ Fairness

(***************************************************************************)
(* Runs with more actions than the action queue holds.  The program is     *)
(* also started in the state it is in when the only worker has had         *)
(* ActQueueCap paths answered "no change" before report received any: the  *)
(* action queue is full, the worker holds the next path, and the traversal *)
(* has nothing more to send.                                               *)
(***************************************************************************)
InitFull ==
    /\ check \in BOOLEAN
    /\ diff \in BOOLEAN
    /\ nports = 1
    /\ known = 2
    /\ pathQueue = << >>
    /\ pathClosed = FALSE
    /\ held = {[id |-> ActQueueCap + 1, file |-> 2]}
    /\ wgCount = 1
    /\ actQueue = [i \in 1..ActQueueCap |-> Unchanged]
    /\ actClosed = FALSE
    /\ exitCode = 0
    /\ unchangedCount = 0
    /\ reformattedCount = 0
    /\ errorCount = 0
    /\ rpc = "loop"
    /\ summary = "none"
    /\ exitStatus = Running
    /\ disk = InitDisk
    /\ sent = [i \in 1..(ActQueueCap + 1) |-> IF i <= ActQueueCap THEN 1 ELSE 0]
    /\ calls = {[kind |-> "nochange", end |-> "return", act |-> Unchanged,
                 wrote |-> FALSE, same |-> TRUE]}
    /\ overwritten = {}
    /\ consumed = [a \in Action |-> 0]
    /\ callArg = NoArg
    /\ callRes = NoCall

TerminationSpec == (Init \/ InitFull) /\ [][Next]_vars /\ Fairness

(***************************************************************************)
(* report on its own: the function report(check, actQueue) applied to      *)
(* every short sequence of actions, the queue being closed.  The actions   *)
(* are those processPath can return under the flag.                        *)
(***************************************************************************)
ActionsUnder(confCheck) ==
    IF confCheck THEN {Unchanged, WouldBeReformatted, Error}
    ELSE {Unchanged, Reformatted, Error}

SeqsUpTo(S, n) == UNION {[1..k -> S] : k \in 0..n}

InitReport ==
    /\ check \in BOOLEAN
    /\ diff = FALSE
    /\ nports = 1
    /\ known = 0
    /\ pathQueue = << >>
    /\ pathClosed = TRUE
    /\ held = {}
    /\ wgCount = 0
    /\ actQueue \in SeqsUpTo(ActionsUnder(check), MaxActions)
    /\ actClosed = TRUE
    /\ exitCode = 0
    /\ unchangedCount = 0
    /\ reformattedCount = 0
    /\ errorCount = 0
    /\ rpc = "loop"
    /\ summary = "none"
    /\ exitStatus = Running
    /\ disk = InitDisk
    /\ sent = [i \in 1..Len(actQueue) |-> 1]
    /\ calls = {}
    /\ overwritten = {}
    /\ consumed = [a \in Action |-> 0]
    /\ callArg = NoArg
    /\ callRes = NoCall

NextReport == ReportReceive \/ ReportReturn

ReportSpec == InitReport /\ [][NextReport]_vars

(***************************************************************************)
(* processPath on its own: one worker holds one path, and the function is  *)
(* applied to every answer of queryBlackd, the body of a 200 answer being  *)
(* any short sequence of tokens, under every flag and every outcome of the *)
(* calls to the operating system.                                          *)
(***************************************************************************)
Token == {"In", "Out", "\n", "x"}

Answers(confDiff) ==
    queryBlackd(confDiff)
      \cup {Response(200, b, FALSE) : b \in SeqsUpTo(Token, MaxBody)}

InitProcess ==
    /\ check \in BOOLEAN
    /\ diff \in BOOLEAN
    /\ nports = 1
    /\ known = 1
    /\ pathQueue = << >>
    /\ pathClosed = TRUE
    /\ held = {[id |-> 1, file |-> 1]}
    /\ wgCount = 1
    /\ actQueue = << >>
    /\ actClosed = FALSE
    /\ exitCode = 0
    /\ unchangedCount = 0
    /\ reformattedCount = 0
    /\ errorCount = 0
    /\ rpc = "loop"
    /\ summary = "none"
    /\ exitStatus = Running
    /\ disk = InitDisk
    /\ sent = <<0>>
    /\ calls = {}
    /\ overwritten = {}
    /\ consumed = [a \in Action |-> 0]
    /\ \E r \in Answers(diff) : \E io \in IOResultsFor(r, check, diff) :
          callArg = [r |-> r, file |-> 1, stdoutOk |-> io.stdoutOk,
                 createOk |-> io.createOk, copyOk |-> io.copyOk,
                 syncOk |-> io.syncOk, readerFrom |-> io.readerFrom]
    /\ callRes = NoCall

\* processPath(conf, path) is called and ends
ProcessPathCall ==
    /\ callRes = NoCall
    /\ LET f == callArg.file
           pp == processPath(callArg.r, PathName(f), disk[f], check, diff,
                             callArg.readerFrom, callArg)
       IN /\ callRes' = pp
          /\ disk' = [disk EXCEPT ![f] = pp.content]
    /\ UNCHANGED <<confVars, walkVars, held, wgCount, actQueue, actClosed,
                   reportVars, exitStatus, histVars, callArg>>

NextProcess == ProcessPathCall

ProcessSpec == InitProcess /\ [][NextProcess]_vars

(***************************************************************************)
(* Properties.                                                             *)
(***************************************************************************)
\* number of actions report has received
Received == consumed[Unchanged] + consumed[Reformatted]
              + consumed[WouldBeReformatted] + consumed[Error]

\* the paths whose action has been sent on the action queue
Acted == {i \in 1..Len(sent) : sent[i] >= 1}

\* C1: every path put on the path queue yields exactly one Action: no path is
\* acted on twice, every action sent is in the action queue or was received
\* by report, the action queue is closed only when the traversal is over and
\* every path has its action, and when report leaves its loop it has
\* received as many actions as paths were enqueued.
C1_ExactlyOneAction ==
    /\ \A i \in 1..Len(sent) : sent[i] <= 1
    /\ Received + Len(actQueue) = Cardinality(Acted)
    /\ actClosed => pathClosed /\ Acted = 1..Len(sent)
    /\ rpc = "returned" => Received = Len(sent)

C1_Witness ==
    /\ rpc = "returned"
    /\ nports = 2
    /\ Len(sent) = 2
    /\ Received = 2

\* the exit code the spec derives from the actions received
ExpectedExit ==
    IF consumed[Error] > 0 THEN 123
    ELSE IF consumed[WouldBeReformatted] > 0 THEN 1
    ELSE 0

\* C2: after any sequence of actions the exit code of report is 123 if an
\* Error was received, else 1 if a WouldBeReformatted was, else 0, at every
\* iteration and at the return; once 123 it stays 123.
C2_ExitCodePrecedence ==
    /\ [](exitCode = ExpectedExit)
    /\ [](rpc = "returned" => exitStatus = ExpectedExit)
    /\ [][exitCode = 123 => exitCode' = 123]_vars

C2_Witness ==
    /\ rpc = "returned"
    /\ consumed[Error] > 0
    /\ consumed[WouldBeReformatted] > 0
    /\ exitStatus = 123

\* the kinds of result queryBlackd has returned so far
Kinds == {c.kind : c \in calls}

\* the process has exited after a traversal that came to its end
Ended == pathClosed /\ exitStatus # Running

\* C3 (as claimed): with --diff no file is created, truncated or written:
\* overwritePath is called for no path and every file keeps its content.
C3_NoWriteInDiffMode ==
    diff => overwritten = {} /\ disk = InitDisk

\* C4 (as claimed): in check mode, when the daemon answered "changed" for a
\* path, report returns the exit code 1 and no file was modified.
C4_Original ==
    (check /\ rpc = "returned" /\ "changed" \in Kinds)
        => exitStatus = 1 /\ disk = InitDisk /\ overwritten = {}

\* C4 (amended): in check mode no file is ever modified, and when the daemon
\* answered "changed" for a path and report returns, the exit code is 1
\* unless an Error was received, and 123 then.
C4_CheckMode ==
    check =>
        /\ disk = InitDisk
        /\ overwritten = {}
        /\ (rpc = "returned" /\ "changed" \in Kinds)
              => exitStatus = (IF consumed[Error] > 0 THEN 123 ELSE 1)

C4_Witness ==
    /\ check
    /\ rpc = "returned"
    /\ Len(sent) = 2
    /\ "changed" \in Kinds
    /\ exitStatus = 1

\* C5: a path whose request failed in transport, or that the daemon
\* answered with 400 or 500, has the action Error, and the exit code report
\* returns is 123, whatever the other paths and the flags.
C5_ErrorGives123 ==
    \A c \in calls : c.kind = "failed" =>
        /\ c.act = Error
        /\ rpc = "returned" => exitStatus = 123

\* C6: when every answer of the daemon is "no change", every call of
\* processPath returns Unchanged, report receives nothing but Unchanged, and
\* the run ends by report with exit code 0, whatever the flags.
C6_AllNoChange ==
    (calls # {} /\ Kinds = {"nochange"}) =>
        /\ \A c \in calls : c.end = "return" /\ c.act = Unchanged
        /\ Received = consumed[Unchanged]
        /\ Ended => rpc = "returned" /\ exitStatus = 0

C6_Witness ==
    /\ rpc = "returned"
    /\ nports = 2
    /\ Len(sent) = 2
    /\ Kinds = {"nochange"}
    /\ diff /\ ~check
    /\ exitStatus = 0

\* an answer with a status newBlackResult has no case for was classified
Aborted == \E c \in calls : c.kind = "unsupported"

\* C7: a status other than 200, 204, 400 and 500 ends the process in the call
\* that classifies it, with the status of log.Fatalf, no action for the path
\* and no summary; no step of any goroutine follows: no path is taken, no
\* request answered, no file written, no action counted.
C7_AbortOnUnsupported ==
    /\ [](\A c \in calls : c.kind = "unsupported" =>
             /\ c.end = "fatal" /\ c.act = NoAction /\ ~c.wrote /\ c.same
             /\ exitStatus = 1
             /\ summary = "none" /\ rpc = "loop")
    /\ [][~Aborted]_vars

C7_Witness ==
    /\ Aborted
    /\ exitStatus = 1
    /\ Cardinality(held) = 2

\* C8: when the traversal ends without a candidate, every worker leaves its
\* loop, the action queue is closed, and report prints the "nothing to do"
\* message, no summary, and the process exits with 0.
C8_NothingToDo ==
    (pathClosed /\ sent = << >>) ~>
        (/\ rpc = "returned"
         /\ summary = NothingToDo
         /\ exitStatus = 0
         /\ actClosed
         /\ wgCount = 0)

C8_Witness ==
    /\ rpc = "returned"
    /\ sent = << >>
    /\ nports = 2
    /\ summary = NothingToDo
    /\ exitStatus = 0

\* C9: a call of processPath that returns Unchanged, or whose answer is "no
\* change", 400 or 500 (or no answer at all), does not call overwritePath and
\* leaves the content of the file as it was, in every mode.
C9_NoRewrite ==
    \A c \in calls :
        (c.act = Unchanged \/ c.kind \in {"nochange", "failed"})
            => ~c.wrote /\ c.same

C9_Witness ==
    /\ ~check /\ ~diff
    /\ \E c \in calls : c.kind = "nochange" /\ c.act = Unchanged
    /\ \E c \in calls : c.kind = "failed" /\ c.act = Error
    /\ disk = InitDisk

\* the summary the spec describes: the non-zero counts in the order
\* reformatted, unchanged, failed, each "N file" or "N files" and its verb,
\* joined by ", " and closed by a period
Part(n, verb) == ToString(n) \o (IF n > 1 THEN " files " ELSE " file ") \o verb

RECURSIVE Joined(_)
Joined(parts) ==
    IF parts = << >> THEN ""
    ELSE IF Len(parts) = 1 THEN parts[1]
    ELSE parts[1] \o ", " \o Joined(Tail(parts))

NonZero(p) == p[1] > 0

ExpectedSummary ==
    LET nRef == consumed[Reformatted] + consumed[WouldBeReformatted]
        counts == IF check
                  THEN << <<nRef, "would be reformatted">>,
                          <<consumed[Unchanged], "would be left unchanged">>,
                          <<consumed[Error], "would fail to reformat">> >>
                  ELSE << <<nRef, "reformatted">>,
                          <<consumed[Unchanged], "left unchanged">>,
                          <<consumed[Error], "failed to reformat">> >>
        kept == SelectSeq(counts, NonZero)
    IN Joined([k \in 1..Len(kept) |-> Part(kept[k][1], kept[k][2])]) \o "."

\* one Reformatted, one Unchanged and one Error, without --check
Scenario ==
    /\ ~check
    /\ consumed = [a \in Action |-> IF a = WouldBeReformatted THEN 0 ELSE 1]

\* C10: when report returns after at least one action, its three counts are
\* those of the actions received (reformatted counts Reformatted and
\* WouldBeReformatted) and sum to their number, and the summary is the one
\* the spec describes; in the scenario it is the sentence of the spec and
\* the exit code is 123.
C10_Summary ==
    (rpc = "returned" /\ Received > 0) =>
        /\ reformattedCount = consumed[Reformatted] + consumed[WouldBeReformatted]
        /\ unchangedCount = consumed[Unchanged]
        /\ errorCount = consumed[Error]
        /\ reformattedCount + unchangedCount + errorCount = Received
        /\ summary = ExpectedSummary
        /\ Scenario =>
              /\ summary = "1 file reformatted, 1 file left unchanged, 1 file failed to reformat."
              /\ exitStatus = 123

C10_Witness ==
    /\ rpc = "returned"
    /\ Scenario
    /\ summary = "1 file reformatted, 1 file left unchanged, 1 file failed to reformat."

\* C14 (as claimed): every per-path failure becomes an Error action of the
\* path and does not stop the run: a call of processPath whose file could
\* not be opened, whose request failed or was answered 400 or 500 returns
\* Error, and only an unrecognized status ends the process inside a call.
C14_PerPathErrorsContained ==
    \A c \in calls :
        /\ c.kind \in {"open", "failed"} => c.end = "return" /\ c.act = Error
        /\ c.end # "return" => c.kind = "unsupported"

\* C15: the causal order of a run: a worker leaves its loop only when the
\* path queue is closed and drained; the action queue is closed only when
\* the traversal is over, no path is queued or held, every worker has left
\* and every enqueued path has its action in the queue or received; report
\* returns only on the closed, drained action queue.
C15_CausalOrder ==
    /\ wgCount < nports => pathClosed /\ pathQueue = << >>
    /\ actClosed =>
          /\ pathClosed /\ pathQueue = << >> /\ held = {} /\ wgCount = 0
          /\ Received + Len(actQueue) = Len(sent)
    /\ rpc = "returned" => actClosed /\ actQueue = << >>

C15_Witness ==
    /\ rpc = "returned"
    /\ nports = 2
    /\ Len(sent) = 2
    /\ actClosed /\ wgCount = 0
    /\ exitStatus = 123

\* C16 (as claimed): at no time do two workers hold the same path string.
C16_NoSharedPath ==
    \A p \in held : \A q \in held : p.file = q.file => p = q

\* C19: the summary (or the "nothing to do" message) and the exit code come
\* once and last: when report has returned every worker has left its loop,
\* nothing is queued or held, and every action was received; nothing is
\* printed before report returns, and no step of the program follows.
C19_SummaryLast ==
    /\ [](rpc = "returned" =>
             /\ wgCount = 0 /\ held = {} /\ pathQueue = << >>
             /\ actClosed /\ actQueue = << >>
             /\ Received = Len(sent)
             /\ Acted = 1..Len(sent))
    /\ [](summary # "none" => rpc = "returned")
    /\ [][rpc # "returned" /\ summary = "none"]_vars

C19_Witness ==
    /\ rpc = "returned"
    /\ nports = 2
    /\ overwritten # {}
    /\ Received = 2
    /\ summary # NothingToDo

\* queue q became r without a send: nothing happened to it, or its head was
\* received
NoSend(q, r) == r = q \/ (q # << >> /\ r = Tail(q))

\* C20: a closed queue stays closed and takes no further send; the action
\* queue is closed by a step taken with the WaitGroup counter at zero, when
\* no worker is left to send; no panic comes from a channel operation.
C20_ChannelSafety ==
    /\ [][pathClosed =>
            /\ pathClosed'
            /\ Len(sent') = Len(sent)
            /\ NoSend(pathQueue, pathQueue')]_vars
    /\ [][actClosed =>
            /\ actClosed'
            /\ NoSend(actQueue, actQueue')]_vars
    /\ [][(~actClosed /\ actClosed') => wgCount = 0]_vars
    /\ [](actClosed => wgCount = 0 /\ held = {})
    /\ [](exitStatus = ExitPanic => \E c \in calls : c.end = "panic")

C20_Witness ==
    /\ actClosed
    /\ pathClosed
    /\ nports = 2
    /\ Len(actQueue) = 2
    /\ exitStatus = Running

\* a call of processPath ended the process: log.Fatalf or a panic
AbortedInCall == \E c \in calls : c.end # "return"

\* C18 (as claimed, the panic of newStringFromReader left aside): once the
\* traversal is over, every worker leaves its loop, the action queue is
\* closed and report returns an exit code.
C18_Original ==
    pathClosed ~>
        \/ rpc = "returned" /\ actClosed /\ wgCount = 0
        \/ exitStatus = ExitPanic

\* C18 (amended): every run terminates, and once the traversal is over the
\* run goes on, whatever the number of paths, workers and queued actions,
\* until every worker has left its loop, the action queue is closed and
\* report has returned the exit code the process ends with, unless a call of
\* processPath ends the process first.
C18_Termination ==
    /\ <>(exitStatus # Running)
    /\ pathClosed ~>
          \/ /\ rpc = "returned" /\ actClosed /\ wgCount = 0
             /\ exitStatus = exitCode
          \/ AbortedInCall

\* more actions went through the action queue than it holds, the worker
\* having waited for room
C18_Witness ==
    /\ rpc = "returned"
    /\ Received > ActQueueCap
    /\ wgCount = 0

(***************************************************************************)
(* Properties of processPath on its own.                                   *)
(***************************************************************************)
\* the call of ProcessSpec was answered 200 with body b
Answered200 == callArg.r.err = "none" /\ callArg.r.status = 200
Body == callArg.r.body

\* positions of the newlines of b, in order
Newlines(b) == {k \in 1..Len(b) : b[k] = "\n"}
NthNewline(b, n) ==
    CHOOSE k \in Newlines(b) : Cardinality({j \in Newlines(b) : j <= k}) = n

\* position of the first token t of b between positions lo and hi, 0 if none
FirstIn(b, t, lo, hi) ==
    IF \E k \in lo..hi : b[k] = t
    THEN CHOOSE k \in lo..hi : b[k] = t /\ \A j \in lo..(k - 1) : b[j] # t
    ELSE 0

\* b starts with two newline-terminated lines, the first with the
\* placeholder "In" and the second with the placeholder "Out"
WellFormed(b) ==
    /\ Cardinality(Newlines(b)) >= 2
    /\ FirstIn(b, "In", 1, NthNewline(b, 1)) # 0
    /\ FirstIn(b, "Out", NthNewline(b, 1) + 1, NthNewline(b, 2)) # 0

\* b with the placeholder of each header line replaced by path
Rendered(b, path) ==
    LET i == FirstIn(b, "In", 1, NthNewline(b, 1))
        o == FirstIn(b, "Out", NthNewline(b, 1) + 1, NthNewline(b, 2))
    IN [k \in 1..Len(b) |-> IF k = i \/ k = o THEN path ELSE b[k]]

\* C11: in diff mode, for a changed file whose diff starts with the two
\* placeholder header lines, what printDiff writes to standard output (the
\* writes succeeding) is the first header with "In" replaced by the path, the
\* second header with "Out" replaced by the path, and the rest of the body
\* as the daemon sent it.
C11_DiffOutput ==
    (callRes # NoCall /\ diff /\ Answered200 /\ WellFormed(Body) /\ callArg.stdoutOk)
        => callRes.out = Rendered(Body, PathName(callArg.file))

C11_Witness ==
    /\ callRes # NoCall
    /\ diff
    /\ Body = <<"In", "\n", "Out", "\n", "x">>
    /\ callArg.stdoutOk
    /\ callRes.out = <<"a.py", "\n", "a.py", "\n", "x">>

\* the call of ProcessSpec reached overwritePath with the whole body left to
\* read: a changed file, neither --check nor --diff
Rewrites == callRes # NoCall /\ Answered200 /\ ~check /\ ~diff

\* C12 (as claimed): when overwritePath returns nil (the path's action is
\* Reformatted), the content of the file is the whole of the new content.
C12_FullWrite ==
    (Rewrites /\ callRes.act = Reformatted)
        => disk[callArg.file] = Body

\* one of the steps of overwritePath failed
RewriteFailed == ~callArg.createOk \/ ~callArg.copyOk \/ ~callArg.syncOk

\* C13 (as claimed): when overwritePath fails at create, write or sync time,
\* the path's action is Error and the file holds its original content or
\* the whole new content, never something else.
C13_NoPartialCommit ==
    (Rewrites /\ RewriteFailed)
        => /\ callRes.act = Error
           /\ disk[callArg.file] \in {Original, Body}

\* C17 (as claimed): in diff mode, a "changed" answer whose diff does not
\* start with two newline-terminated header lines holding "In" and "Out"
\* gives the action Error, with --check too, and the file is not rewritten.
C17_MalformedDiffIsError ==
    (callRes # NoCall /\ diff /\ Answered200 /\ ~WellFormed(Body))
        => /\ callRes.act = Error
           /\ ~callRes.wrote
           /\ disk[callArg.file] = Original

====
